---- MODULE Spec2Model ----
(***************************************************************************)
(* Model of tasnif/calculations.py: the three pipeline functions           *)
(* get_embeddings, calculate_pca and calculate_kmeans, together with the   *)
(* input validation of the library routines they call (Img2Vec, sklearn's  *)
(* PCA, scipy's kmeans2, numpy's squeeze and bincount).                    *)
(*                                                                         *)
(* A call is recorded with its input, the input as it is after the call,   *)
(* its outcome (a returned value or a raised exception) and the trace of   *)
(* what it did, in order: log lines and calls of the library routines.     *)
(***************************************************************************)
EXTENDS Integers, Sequences, FiniteSets

\* ---------------------------------------------------------------- bounds
\* Largest number of images / rows of a matrix.
MaxSamples == 2
\* Largest number of columns of an embedding matrix.
MaxFeatures == 2
\* Largest requested dimension / cluster count (the smallest is -1).
MaxParam == 3
\* Coordinates of the points handed to the clusterer lie in 0..MaxCoord.
MaxCoord == 1
\* Largest number of columns of a matrix handed to the clusterer.
MaxCols == 1
\* Image tags are 0..MaxTag; tag 0 is an image the extractor cannot process.
MaxTag == 2

VARIABLES
    pending,         \* the function the caller applies and the input it applies it to
    call,            \* the call made last
    prev,            \* the call made before it (same function, same input)
    cuda_available   \* the environment: whether a CUDA device is present
                     \* (read by get_embeddings alone)

vars == <<pending, call, prev, cuda_available>>

\* ---------------------------------------------------------------- values
Exc(t, m) == [type |-> t, msg |-> m]
Return(v) == [kind |-> "return", value |-> v]
Raise(e) == [kind |-> "raise", exc |-> e]

\* One entry of a call's trace: a line given to logging.info, or the
\* invocation of a library routine.  arg is the number formatted into the
\* line (0 when there is none).
Log(text, n) == [ev |-> "log", text |-> text, arg |-> n]
Invoke(name) == [ev |-> "call", text |-> name, arg |-> 0]

\* cause is the exception a library routine raised during the call, NoExc
\* when none did.
NoExc == Exc("none", <<>>)

Done(fn, input, after, outcome, cause, trace) ==
    [fn |-> fn, input |-> input, after |-> after, outcome |-> outcome,
     cause |-> cause, trace |-> trace]

NoCall == Done("none", [x |-> 0], [x |-> 0], Return(0), NoExc, <<>>)

Cause(r) == IF r.kind = "raise" THEN r.exc ELSE NoExc

Min(a, b) == IF a < b THEN a ELSE b

\* ------------------------------------------------------- get_embeddings
DeviceLine(use_gpu) ==
    Log(IF use_gpu THEN "Img2Vec is running on GPU..." ELSE "Img2Vec is running on CPU...", 0)

\* Img2Vec(cuda=use_gpu): moving the network to a CUDA device that is not
\* there raises.
Img2Vec(use_gpu) ==
    IF use_gpu /\ ~cuda_available
    THEN Raise(Exc("RuntimeError", <<"Torch not compiled with CUDA enabled">>))
    ELSE Return("img2vec")

\* The vector the extractor computes for one image: a fixed function of the
\* image alone.
Vec(tag) == <<tag, tag * tag + 1>>

\* img2vec.get_vec(images, tensor=False) on a list of images: one row per
\* image, in the order of the list.  An empty list cannot be stacked and an
\* image that cannot be converted raises.
get_vec(images) ==
    IF Len(images) = 0
    THEN Raise(Exc("RuntimeError", <<"stack expects a non-empty TensorList">>))
    ELSE IF \E i \in 1..Len(images) : images[i] = 0
    THEN Raise(Exc("OSError", <<"image file is truncated">>))
    ELSE Return([i \in 1..Len(images) |-> Vec(images[i])])

\* As get_embeddings, with the rows returned last image first.
get_embeddings_reversed(use_gpu, images) ==
    LET input == [use_gpu |-> use_gpu, images |-> images]
        t2 == <<DeviceLine(use_gpu), Invoke("Img2Vec")>>
        t3 == Append(t2, Invoke("get_vec"))
        img2vec == Img2Vec(use_gpu)
        r == get_vec(images)
    IN  IF img2vec.kind = "raise"
        THEN Done("get_embeddings", input, input, img2vec, Cause(img2vec), t2)
        ELSE Done("get_embeddings", input, input,
                  IF r.kind = "raise" THEN r
                  ELSE Return([i \in 1..Len(r.value) |-> r.value[Len(r.value) + 1 - i]]),
                  Cause(r), t3)

get_embeddings(use_gpu, images) ==
    LET input == [use_gpu |-> use_gpu, images |-> images]
        t2 == <<DeviceLine(use_gpu), Invoke("Img2Vec")>>
        t3 == Append(t2, Invoke("get_vec"))
        img2vec == Img2Vec(use_gpu)
        embeddings == get_vec(images)
    IN  IF img2vec.kind = "raise"
        THEN Done("get_embeddings", input, input, img2vec, Cause(img2vec), t2)
        ELSE Done("get_embeddings", input, input, embeddings, Cause(embeddings), t3)

\* -------------------------------------------------------- calculate_pca
\* An embedding matrix is modelled by its shape: the projection's values
\* depend on the numbers in it, its shape and its failures do not.
Array(shape) == [shape |-> shape]

\* numpy's squeeze: the axes of length 1 are removed.
RECURSIVE squeeze_shape(_)
squeeze_shape(s) ==
    IF s = <<>> THEN <<>>
    ELSE IF Head(s) = 1 THEN squeeze_shape(Tail(s))
    ELSE <<Head(s)>> \o squeeze_shape(Tail(s))

squeeze(a) == Array(squeeze_shape(a.shape))

\* PCA(n_components=n).fit_transform(X): sklearn validates the parameter,
\* then the array (2-D, at least one row and one column), then that
\* n_components is at most min(n_samples, n_features); the result has one
\* row per sample and n_components columns.
fit_transform(X, n_components) ==
    IF n_components < 0
    THEN Raise(Exc("ValueError", <<"The 'n_components' parameter of PCA must be an int in the range [0, inf)">>))
    ELSE IF Len(X.shape) # 2
    THEN Raise(Exc("ValueError", <<"Expected 2D array">>))
    ELSE IF X.shape[1] < 1
    THEN Raise(Exc("ValueError", <<"Found array with 0 sample(s)">>))
    ELSE IF X.shape[2] < 1
    THEN Raise(Exc("ValueError", <<"Found array with 0 feature(s)">>))
    ELSE IF n_components > Min(X.shape[1], X.shape[2])
    THEN Raise(Exc("ValueError", <<"n_components must be between 0 and min(n_samples, n_features)">>))
    ELSE Return(Array(<<X.shape[1], n_components>>))

ClampLine(n) ==
    Log("Number of samples is less than the desired dimension. Setting n_components to", n)

PcaLine == Log("PCA calculated.", 0)

\* As calculate_pca, with "PCA calculated." logged before the projection is
\* computed.
calculate_pca_logs_first(embeddings, pca_dim) ==
    LET input == [embeddings |-> embeddings, pca_dim |-> pca_dim]
        n_samples == embeddings.shape[1]
        n_components == IF n_samples < pca_dim THEN Min(n_samples, pca_dim) ELSE pca_dim
        t1 == IF n_samples < pca_dim THEN <<ClampLine(n_components)>> ELSE <<>>
        t2 == t1 \o <<PcaLine, Invoke("PCA.fit_transform")>>
        pca_embeddings == fit_transform(squeeze(embeddings), n_components)
    IN  Done("calculate_pca", input, input, pca_embeddings, Cause(pca_embeddings), t2)

calculate_pca(embeddings, pca_dim) ==
    LET input == [embeddings |-> embeddings, pca_dim |-> pca_dim]
        n_samples == embeddings.shape[1]
        n_components == IF n_samples < pca_dim THEN Min(n_samples, pca_dim) ELSE pca_dim
        t1 == IF n_samples < pca_dim THEN <<ClampLine(n_components)>> ELSE <<>>
        t2 == Append(t1, Invoke("PCA.fit_transform"))
        pca_embeddings == fit_transform(squeeze(embeddings), n_components)
    IN  IF pca_embeddings.kind = "raise"
        THEN Done("calculate_pca", input, input, pca_embeddings, Cause(pca_embeddings), t2)
        ELSE Done("calculate_pca", input, input, pca_embeddings, NoExc, Append(t2, PcaLine))

\* ----------------------------------------------------- calculate_kmeans
\* The argument of calculate_kmeans: a numpy array or a plain list of lists,
\* with its rows.  A row is a point with integer coordinates.
NdArray(rows) == [type |-> "ndarray", rows |-> rows]
PlainList(rows) == [type |-> "list", rows |-> rows]

\* Number of iterations of kmeans2 (its default, the call passes none).
Iter == 10

\* A centroid is the mean of a set of points, kept exactly as the sum s of
\* the points and their number c.
Centroid(s, c) == [s |-> s, c |-> c]

RECURSIVE SumSeq(_)
SumSeq(q) == IF q = <<>> THEN 0 ELSE Head(q) + SumSeq(Tail(q))

\* The squared distance of point x to centroid m is Dev(x, m) / (m.c * m.c).
Dev(x, m) == SumSeq([j \in 1..Len(x) |-> (x[j] * m.c - m.s[j]) * (x[j] * m.c - m.s[j])])

Closer(x, a, b) == Dev(x, a) * b.c * b.c < Dev(x, b) * a.c * a.c

\* As vq, with the codes counted from 1.
vq_from_one(data, code_book) ==
    [r \in 1..Len(data) |->
        CHOOSE i \in 1..Len(code_book) :
            /\ \A j \in 1..Len(code_book) : ~Closer(data[r], code_book[j], code_book[i])
            /\ \A j \in 1..(i - 1) : Closer(data[r], code_book[i], code_book[j])]

\* scipy's vq: the code of a point is the index of the nearest centroid, the
\* first one among equally near ones.  Codes count from 0.
vq(data, code_book) ==
    [r \in 1..Len(data) |->
        (CHOOSE i \in 1..Len(code_book) :
            /\ \A j \in 1..Len(code_book) : ~Closer(data[r], code_book[j], code_book[i])
            /\ \A j \in 1..(i - 1) : Closer(data[r], code_book[i], code_book[j])) - 1]

Members(label, i) == {r \in 1..Len(label) : label[r] = i}

RECURSIVE SumPoints(_, _, _)
SumPoints(data, R, d) ==
    IF R = {} THEN [j \in 1..d |-> 0]
    ELSE LET r == CHOOSE x \in R : TRUE
             rest == SumPoints(data, R \ {r}, d)
         IN  [j \in 1..d |-> data[r][j] + rest[j]]

\* update_cluster_means, followed by kmeans2 keeping the old centroid of a
\* cluster without members (missing='warn' only warns).
update_cluster_means(data, label, code_book) ==
    [i \in 1..Len(code_book) |->
        IF Members(label, i - 1) = {} THEN code_book[i]
        ELSE Centroid(SumPoints(data, Members(label, i - 1), Len(data[1])),
                      Cardinality(Members(label, i - 1)))]

\* The loop of kmeans2: the returned labels are those computed in the last
\* iteration, the returned centroids the means updated from them.  An
\* iteration that leaves the centroids as they were is repeated unchanged by
\* all that follow, so the loop is cut short there.
RECURSIVE kmeans_loop(_, _, _)
kmeans_loop(data, code_book, i) ==
    LET label == vq(data, code_book)
        new_code_book == update_cluster_means(data, label, code_book)
    IN  IF i = 1 \/ new_code_book = code_book
        THEN [centroid |-> new_code_book, labels |-> label]
        ELSE kmeans_loop(data, new_code_book, i - 1)

Size(data) == IF Len(data) = 0 THEN 0 ELSE Len(data) * Len(data[1])

\* kmeans2(data, k, minit="points").  init is the draw of the random
\* generator: the k distinct rows taken as the initial centroids.
kmeans2(data, k, init) ==
    IF Size(data) < 1
    THEN Raise(Exc("ValueError", <<"Empty input is not supported.">>))
    ELSE IF k < 1
    THEN Raise(Exc("ValueError", <<"Cannot ask kmeans2 for less than one cluster">>))
    ELSE IF k > Len(data)
    THEN Raise(Exc("ValueError", <<"Cannot take a larger sample than population when 'replace=False'">>))
    ELSE Return(kmeans_loop(data, [i \in 1..k |-> Centroid(data[init[i]], 1)], Iter))

\* numpy's bincount: entry i counts the occurrences of i, for i from 0 to
\* the largest value present (TLA+ sequences count from 1: entry i + 1).
bincount(labels) ==
    IF labels = <<>> THEN <<>>
    ELSE LET top == CHOOSE m \in {labels[r] : r \in 1..Len(labels)} :
                        \A r \in 1..Len(labels) : labels[r] <= m
         IN  [i \in 1..(top + 1) |-> Cardinality(Members(labels, i - 1))]

NotArrayError == Exc("ValueError", <<"pca_embeddings must be a numpy array">>)

TooManyClassesError ==
    Exc("ValueError",
        <<"num_classes must be less than or equal to the number of samples in pca_embeddings">>)

Wrapped(e) == Exc("RuntimeError", <<"An error occurred during KMeans processing: ">> \o e.msg)

KMeansLine == Log("KMeans calculated.", 0)

KMeansResult(r) ==
    Return([centroid |-> r.value.centroid,
            labels |-> r.value.labels,
            counts |-> bincount(r.value.labels)])

KMeansTrace == <<Invoke("kmeans2"), Invoke("bincount"), KMeansLine>>

\* As calculate_kmeans, without the check of num_classes against the number
\* of rows.
calculate_kmeans_unchecked(pca_embeddings, num_classes, init) ==
    LET input == [pca_embeddings |-> pca_embeddings, num_classes |-> num_classes]
        r == kmeans2(pca_embeddings.rows, num_classes, init)
    IN  IF pca_embeddings.type # "ndarray"
        THEN Done("calculate_kmeans", input, input, Raise(NotArrayError), NoExc, <<>>)
        ELSE IF r.kind = "raise"
        THEN Done("calculate_kmeans", input, input, Raise(Wrapped(r.exc)), r.exc,
                  <<Invoke("kmeans2")>>)
        ELSE Done("calculate_kmeans", input, input, KMeansResult(r), NoExc, KMeansTrace)

\* As calculate_kmeans, with the two checks in the other order.
calculate_kmeans_count_first(pca_embeddings, num_classes, init) ==
    LET input == [pca_embeddings |-> pca_embeddings, num_classes |-> num_classes]
        r == kmeans2(pca_embeddings.rows, num_classes, init)
    IN  IF num_classes > Len(pca_embeddings.rows)
        THEN Done("calculate_kmeans", input, input, Raise(TooManyClassesError), NoExc, <<>>)
        ELSE IF pca_embeddings.type # "ndarray"
        THEN Done("calculate_kmeans", input, input, Raise(NotArrayError), NoExc, <<>>)
        ELSE IF r.kind = "raise"
        THEN Done("calculate_kmeans", input, input, Raise(Wrapped(r.exc)), r.exc,
                  <<Invoke("kmeans2")>>)
        ELSE Done("calculate_kmeans", input, input, KMeansResult(r), NoExc, KMeansTrace)

\* As calculate_kmeans, with the except clause re-raising the error it caught.
calculate_kmeans_reraise(pca_embeddings, num_classes, init) ==
    LET input == [pca_embeddings |-> pca_embeddings, num_classes |-> num_classes]
        r == kmeans2(pca_embeddings.rows, num_classes, init)
    IN  IF pca_embeddings.type # "ndarray"
        THEN Done("calculate_kmeans", input, input, Raise(NotArrayError), NoExc, <<>>)
        ELSE IF num_classes > Len(pca_embeddings.rows)
        THEN Done("calculate_kmeans", input, input, Raise(TooManyClassesError), NoExc, <<>>)
        ELSE IF r.kind = "raise"
        THEN Done("calculate_kmeans", input, input, Raise(r.exc), r.exc,
                  <<Invoke("kmeans2")>>)
        ELSE Done("calculate_kmeans", input, input, KMeansResult(r), NoExc, KMeansTrace)

\* As calculate_kmeans, with the rows centred on the first row in place
\* before clustering.
calculate_kmeans_inplace(pca_embeddings, num_classes, init) ==
    LET input == [pca_embeddings |-> pca_embeddings, num_classes |-> num_classes]
        rows == pca_embeddings.rows
        centred == [i \in 1..Len(rows) |-> [j \in 1..Len(rows[i]) |-> rows[i][j] - rows[1][j]]]
        after == [pca_embeddings |-> [type |-> pca_embeddings.type, rows |-> centred],
                  num_classes |-> num_classes]
        r == kmeans2(centred, num_classes, init)
    IN  IF pca_embeddings.type # "ndarray"
        THEN Done("calculate_kmeans", input, input, Raise(NotArrayError), NoExc, <<>>)
        ELSE IF num_classes > Len(pca_embeddings.rows)
        THEN Done("calculate_kmeans", input, input, Raise(TooManyClassesError), NoExc, <<>>)
        ELSE IF r.kind = "raise"
        THEN Done("calculate_kmeans", input, after, Raise(Wrapped(r.exc)), r.exc,
                  <<Invoke("kmeans2")>>)
        ELSE Done("calculate_kmeans", input, after, KMeansResult(r), NoExc, KMeansTrace)

calculate_kmeans(pca_embeddings, num_classes, init) ==
    LET input == [pca_embeddings |-> pca_embeddings, num_classes |-> num_classes]
        r == kmeans2(pca_embeddings.rows, num_classes, init)
    IN  IF pca_embeddings.type # "ndarray"
        THEN Done("calculate_kmeans", input, input, Raise(NotArrayError), NoExc, <<>>)
        ELSE IF num_classes > Len(pca_embeddings.rows)
        THEN Done("calculate_kmeans", input, input, Raise(TooManyClassesError), NoExc, <<>>)
        ELSE IF r.kind = "raise"
        THEN Done("calculate_kmeans", input, input, Raise(Wrapped(r.exc)), r.exc,
                  <<Invoke("kmeans2")>>)
        ELSE Done("calculate_kmeans", input, input, KMeansResult(r), NoExc, KMeansTrace)

\* ---------------------------------------------------------------- inputs
RECURSIVE SeqsUpTo(_, _)
SeqsUpTo(S, n) ==
    IF n = 0 THEN {<<>>}
    ELSE LET shorter == SeqsUpTo(S, n - 1)
         IN  shorter \cup {Append(s, x) : s \in {t \in shorter : Len(t) = n - 1}, x \in S}

ImageLists == SeqsUpTo(0..MaxTag, MaxSamples)
Matrices == {Array(<<n, f>>) : n \in 0..MaxSamples, f \in 0..MaxFeatures}
Params == -1..MaxParam

\* The matrices handed to the clusterer: up to MaxSamples rows, all with
\* the same number of columns, from none to MaxCols.
Points(d) == [1..d -> 0..MaxCoord]
RowLists == UNION {SeqsUpTo(Points(d), MaxSamples) : d \in 0..MaxCols}
\* A plain list of lists is never read beyond its length: its rows are all
\* <<0>>.
ClusterInputs ==
    {NdArray(rows) : rows \in RowLists}
    \cup {PlainList(rows) : rows \in SeqsUpTo({<<0>>}, MaxSamples)}

\* The draws of k distinct rows out of n, in every order.
Draws(n, k) ==
    IF 1 <= k /\ k <= n
    THEN {s \in [1..k -> 1..n] : \A i, j \in 1..k : s[i] = s[j] => i = j}
    ELSE {<<>>}

Inputs ==
    {[fn |-> "get_embeddings", input |-> [use_gpu |-> g, images |-> im]] :
        g \in BOOLEAN, im \in ImageLists}
    \cup {[fn |-> "calculate_pca", input |-> [embeddings |-> e, pca_dim |-> d]] :
        e \in Matrices, d \in Params}
    \cup {[fn |-> "calculate_kmeans", input |-> [pca_embeddings |-> p, num_classes |-> k]] :
        p \in ClusterInputs, k \in Params}

\* ---------------------------------------------------------------- actions
\* The caller applies one of the functions to its input, any number of
\* times; the functions keep nothing between calls.
Record(c) ==
    /\ call' = c
    /\ prev' = call
    /\ UNCHANGED <<pending, cuda_available>>

GetEmbeddings ==
    /\ pending.fn = "get_embeddings"
    /\ Record(get_embeddings(pending.input.use_gpu, pending.input.images))

CalculatePca ==
    /\ pending.fn = "calculate_pca"
    /\ Record(calculate_pca(pending.input.embeddings, pending.input.pca_dim))

CalculateKmeans ==
    /\ pending.fn = "calculate_kmeans"
    /\ \E init \in Draws(Len(pending.input.pca_embeddings.rows), pending.input.num_classes) :
           Record(calculate_kmeans(pending.input.pca_embeddings, pending.input.num_classes, init))

Init ==
    /\ pending \in Inputs
    /\ call = NoCall
    /\ prev = NoCall
    /\ cuda_available \in (IF pending.fn = "get_embeddings" THEN BOOLEAN ELSE {FALSE})

Next ==
    \/ GetEmbeddings
    \/ CalculatePca
    \/ CalculateKmeans

Spec == Init /\ [][Next]_vars

\* ================================================================ claims
Logs(trace) == SelectSeq(trace, LAMBDA e : e.ev = "log")
Invoked(trace, name) == \E i \in 1..Len(trace) : trace[i] = Invoke(name)
EndsWith(msg, tail) ==
    /\ Len(tail) <= Len(msg)
    /\ SubSeq(msg, Len(msg) - Len(tail) + 1, Len(msg)) = tail

IsPca == call.fn = "calculate_pca"
IsKmeans == call.fn = "calculate_kmeans"
IsEmbed == call.fn = "get_embeddings"
PcaSamples == call.input.embeddings.shape[1]
PcaFeatures == call.input.embeddings.shape[2]
Samples == Len(call.input.pca_embeddings.rows)
Classes == call.input.num_classes
IsArrayInput == call.input.pca_embeddings.type = "ndarray"

\* C1: for an embedding matrix with n_samples rows and a pca_dim with
\* n_samples >= pca_dim, calculate_pca returns a matrix with n_samples rows
\* and pca_dim columns.  Stated on the inputs for which a projection onto
\* pca_dim dimensions exists (1 <= pca_dim <= n_features).
C1_PcaReturnsRequestedDim ==
    (IsPca /\ PcaSamples >= call.input.pca_dim
           /\ 1 <= call.input.pca_dim /\ call.input.pca_dim <= PcaFeatures)
    => /\ call.outcome.kind = "return"
       /\ call.outcome.value.shape = <<PcaSamples, call.input.pca_dim>>

\* C2: for an embedding matrix with n_samples rows and a pca_dim with
\* n_samples < pca_dim, calculate_pca does not fail: it logs the clamp and
\* returns a matrix with n_samples rows and n_samples columns.  Stated on
\* the inputs for which a projection onto n_samples dimensions exists
\* (1 <= n_samples <= n_features).
C2_PcaClampsToSamples ==
    (IsPca /\ PcaSamples < call.input.pca_dim
           /\ 1 <= PcaSamples /\ PcaSamples <= PcaFeatures)
    => /\ call.outcome.kind = "return"
       /\ call.outcome.value.shape = <<PcaSamples, PcaSamples>>
       /\ \E i \in 1..Len(call.trace) :
              /\ call.trace[i].ev = "log"
              /\ call.trace[i].arg = PcaSamples

LabelsAndCountsCover ==
    /\ call.outcome.kind = "return"
    /\ Len(call.outcome.value.labels) = Samples
    /\ \A r \in 1..Samples :
           0 <= call.outcome.value.labels[r] /\ call.outcome.value.labels[r] < Classes
    /\ SumSeq(call.outcome.value.counts) = Samples

\* C3 as stated: for every reduced matrix and every num_classes <= n_samples,
\* calculate_kmeans returns one label per row, each in [0, num_classes), and
\* counts that sum to n_samples.
C3_LabelsForEveryClassCount ==
    (IsKmeans /\ IsArrayInput /\ Classes <= Samples) => LabelsAndCountsCover

\* C3 amended: for every reduced matrix with at least one column and every
\* num_classes with 1 <= num_classes <= n_samples, calculate_kmeans returns
\* one label per row, each in [0, num_classes), and counts that sum to
\* n_samples.
C3_LabelsForPositiveClassCount ==
    (IsKmeans /\ IsArrayInput /\ 1 <= Classes /\ Classes <= Samples
              /\ Size(call.input.pca_embeddings.rows) >= 1)
    => LabelsAndCountsCover

C3_Witness ==
    /\ IsKmeans /\ IsArrayInput /\ Classes = 2 /\ Samples = 2
    /\ call.outcome.kind = "return"
    /\ call.outcome.value.labels[1] # call.outcome.value.labels[2]

\* C4: the counts returned by calculate_kmeans have exactly num_classes
\* entries, and entry i is the number of rows labelled i, for every i in
\* [0, num_classes), clusters without rows included.
C4_CountPerCluster ==
    (IsKmeans /\ call.outcome.kind = "return")
    => /\ Len(call.outcome.value.counts) = Classes
       /\ \A i \in 0..(Classes - 1) :
              call.outcome.value.counts[i + 1]
                  = Cardinality({r \in 1..Samples : call.outcome.value.labels[r] = i})

\* C5: when num_classes exceeds the number of rows of a numpy array,
\* calculate_kmeans raises ValueError (not the wrapping RuntimeError), kmeans2
\* is never invoked and "KMeans calculated." is never logged.
C5_TooManyClassesRejected ==
    (IsKmeans /\ IsArrayInput /\ Classes > Samples)
    => /\ call.outcome.kind = "raise"
       /\ call.outcome.exc.type = "ValueError"
       /\ ~Invoked(call.trace, "kmeans2")
       /\ Logs(call.trace) = <<>>

C5_Witness ==
    /\ IsKmeans /\ IsArrayInput /\ Samples >= 1 /\ Classes > Samples
    /\ call.outcome.kind = "raise"

\* C6: when the argument of calculate_kmeans is not a numpy array, the call
\* raises ValueError before kmeans2 is invoked, whatever num_classes is; the
\* type is checked first, so with too many classes as well the error is the
\* one about the type.
C6_NonArrayRejectedFirst ==
    (IsKmeans /\ ~IsArrayInput)
    => /\ call.outcome.kind = "raise"
       /\ call.outcome.exc.type = "ValueError"
       /\ call.outcome.exc.msg = <<"pca_embeddings must be a numpy array">>
       /\ ~Invoked(call.trace, "kmeans2")

C6_Witness ==
    /\ IsKmeans /\ ~IsArrayInput /\ Classes > Samples
    /\ call.outcome.kind = "raise"

\* C7: an error raised inside the clustering computation reaches the caller
\* as a RuntimeError whose message ends with the message of the error
\* raised, never as the error raised itself; a num_classes below 1 is
\* reported this way and not as a ValueError.
C7_ClusteringErrorsWrapped ==
    /\ (IsKmeans /\ call.cause # NoExc)
       => /\ call.outcome.kind = "raise"
          /\ call.outcome.exc.type = "RuntimeError"
          /\ call.outcome.exc # call.cause
          /\ EndsWith(call.outcome.exc.msg, call.cause.msg)
    /\ (IsKmeans /\ IsArrayInput /\ Classes < 1)
       => /\ call.outcome.kind = "raise"
          /\ call.outcome.exc.type = "RuntimeError"
          /\ Invoked(call.trace, "kmeans2")

C7_Witness ==
    /\ IsKmeans /\ IsArrayInput /\ Classes = 0 /\ Samples >= 1
    /\ call.cause.type = "ValueError"
    /\ call.outcome.kind = "raise"

\* C8: an error raised by the extractor inside get_embeddings or by the
\* projector inside calculate_pca reaches the caller as it was raised, the
\* call returns nothing, and the lines logged are those issued before the
\* failure: the device line for get_embeddings; for calculate_pca the clamp
\* notice when n_samples < pca_dim and no line otherwise, never
\* "PCA calculated.".
C8_DelegatedErrorsPropagate ==
    /\ (IsEmbed /\ call.cause # NoExc)
       => /\ call.outcome = Raise(call.cause)
          /\ Logs(call.trace) = <<DeviceLine(call.input.use_gpu)>>
          /\ call.trace[1].ev = "log"
    /\ (IsPca /\ call.cause # NoExc)
       => /\ call.outcome = Raise(call.cause)
          /\ \A i \in 1..Len(call.trace) : call.trace[i].text # "PCA calculated."
          /\ Logs(call.trace) = (IF PcaSamples < call.input.pca_dim
                                  THEN <<ClampLine(PcaSamples)>> ELSE <<>>)

C8_Witness ==
    /\ IsPca /\ call.cause # NoExc
    /\ PcaSamples < call.input.pca_dim
    /\ Len(Logs(call.trace)) = 1

\* C9: for a non-empty list of images, get_embeddings returns what the
\* extractor produces: one row per image, in the order of the images; and it
\* logs one line naming the device (GPU when use_gpu holds, CPU otherwise)
\* before the extractor is invoked.
C9_EmbeddingsFollowImages ==
    (IsEmbed /\ Len(call.input.images) >= 1)
    => /\ call.trace[1].ev = "log"
       /\ call.trace[1].text = (IF call.input.use_gpu
                                THEN "Img2Vec is running on GPU..."
                                ELSE "Img2Vec is running on CPU...")
       /\ Len(Logs(call.trace)) = 1
       /\ call.cause = NoExc
          => /\ call.outcome.kind = "return"
             /\ Len(call.outcome.value) = Len(call.input.images)
             /\ \A i \in 1..Len(call.input.images) :
                    call.outcome.value[i] = Vec(call.input.images[i])

C9_Witness ==
    /\ IsEmbed /\ call.input.use_gpu
    /\ Len(call.input.images) = 2
    /\ call.input.images[1] # call.input.images[2]
    /\ call.outcome.kind = "return"

====
